---- MODULE Spec2Model ----
(***************************************************************************)
(* A model of src/main.py, the Streamlit CSV to JSON converter: one        *)
(* session that uploads a CSV file, loads it (whole or in chunks), picks   *)
(* the conversion options, converts (directly or in batches), shows the    *)
(* JSON output and builds the download link.                               *)
(*                                                                         *)
(* Row counts and text lengths are scaled down: each threshold of the      *)
(* source is kept as a named constant with a small value, in the same      *)
(* order relations the conversion depends on (the slider minimum below the *)
(* sampling threshold, the batch threshold below the slider cap).  The     *)
(* byte-size thresholds keep their real values.                            *)
(***************************************************************************)
EXTENDS Integers, Sequences, FiniteSets, TLC

\* ---------------------------------------------------------------- bounds

\* The largest number of data rows of an uploaded CSV.
MaxRows == 6

\* ------------------------------------------------- constants of the source

\* 5 * 1024 * 1024: the size above which the large-file warning is shown.
WARN_SIZE == 5242880
\* 10 * 1024 * 1024: the size above which the CSV is read in chunks.
CHUNKED_READ_SIZE == 10485760
\* chunk_size of the chunked read (100000 in the source).
READ_CHUNK_SIZE == 3
\* len(df) above which the "Use full dataset" checkbox exists (1000).
SAMPLE_THRESHOLD == 2
\* min_value of the "Sample size" slider (100).
SLIDER_MIN == 1
\* the cap in max_value=min(10000, len(df)) of the slider (10000).
SLIDER_CAP == 5
\* value= of the slider, its default (1000).
SLIDER_DEFAULT == 2
\* len(df_to_convert) above which the Index conversion is batched (5000).
BATCH_THRESHOLD == 3
\* chunk_size of the batched conversion (1000).
CONVERT_CHUNK_SIZE == 2
\* the length of json_str above which the preview is truncated (500000).
PREVIEW_LIMIT == 102

\* ------------------------------------------------------------- helpers

None == "None"

Min(a, b) == IF a <= b THEN a ELSE b

Range(s) == {s[k] : k \in 1..Len(s)}

\* s[a:b] of Python on a sequence: 0-based, end exclusive, clipped.
Slice(s, a, b) == SubSeq(s, a + 1, Min(b, Len(s)))

\* ---------------------------------------------------------- the upload

\* The uploads' names (as characters; the uploader accepts type="csv") and
\* declared sizes in bytes: at most 5 MB, exactly 10 MB, above 10 MB.
Files ==
    { [name |-> <<"d", ".", "c", "s", "v">>, size |-> WARN_SIZE],
      [name |-> <<"m", ".", "d", ".", "c", "s", "v">>, size |-> CHUNKED_READ_SIZE],
      [name |-> <<"m", ".", "d", ".", "c", "s", "v">>, size |-> CHUNKED_READ_SIZE + 1] }

\* The header of the uploaded CSVs: the column names, as characters.
CsvColumns == << <<"a">> >>

\* The cell of data row k (1-based): rows repeat by content from the 4th on.
CellOf(k) == (k - 1) % 3

\* The CSV texts: n data rows of one cell each, and the 1-based number of a
\* malformed data row (0: none).
Csvs ==
    { [rows |-> [k \in 1..n |-> <<CellOf(k)>>], bad |-> b] :
        n \in 0..MaxRows, b \in {0} } \cup
    { [rows |-> [k \in 1..n |-> <<CellOf(k)>>], bad |-> b] :
        n \in {MaxRows - 1}, b \in {1, MaxRows - 1} }

\* ------------------------------------------------------- the DataFrame

\* A DataFrame: the row index labels and the rows, position by position.
EmptyFrame == [index |-> <<>>, data |-> <<>>]

FrameLen(f) == Len(f.index)

\* The frame pandas parses from data rows first+1 .. last of a CSV: the
\* labels of a RangeIndex that continues from chunk to chunk.
ParsedRowsMutRestart(csv, first, last) ==
    [index |-> [k \in 1..(last - first) |-> k - 1],
     data  |-> SubSeq(csv.rows, first + 1, last)]

ParsedRows(csv, first, last) ==
    [index |-> [k \in 1..(last - first) |-> first + k - 1],
     data  |-> SubSeq(csv.rows, first + 1, last)]

\* Whether the parser meets a malformed row among rows first+1 .. last.
ParseFails(csv, first, last) == csv.bad > first /\ csv.bad <= last

\* pd.read_csv(uploaded_file): the whole stream in one step.
ReadCsv(csv) == ParsedRows(csv, 0, Len(csv.rows))

\* pd.concat(df_list): labels and rows appended in list order.
RECURSIVE Concat(_)
Concat(frames) ==
    IF frames = <<>> THEN EmptyFrame
    ELSE LET rest == Concat(Tail(frames))
         IN  [index |-> Head(frames).index \o rest.index,
              data  |-> Head(frames).data \o rest.data]

\* df.iloc[a:b]: rows by position, with their labels.
IlocMutInclusive(f, a, b) ==
    [index |-> Slice(f.index, a, b + 1), data |-> Slice(f.data, a, b + 1)]

Iloc(f, a, b) == [index |-> Slice(f.index, a, b), data |-> Slice(f.data, a, b)]

\* The draws of df.sample(n) on a frame of len rows: n positions, none
\* taken twice (replace=False), in any order.
SampleDrawsMutReplace(n, len) == [1..n -> 1..len]

SampleDraws(n, len) ==
    {p \in [1..n -> 1..len] : \A x, y \in 1..n : x # y => p[x] # p[y]}

\* The frame df.sample(n) returns for a draw: the drawn rows under the
\* labels they have in the source frame.
Sampled(f, p) ==
    [index |-> [k \in 1..Len(p) |-> f.index[p[k]]],
     data  |-> [k \in 1..Len(p) |-> f.data[p[k]]]]

\* ------------------------------------------------------------- the text

\* The characters of codes 32 .. 126, in order (code 96 by its name).
Printable ==
    <<
       " ", "!", "\"", "#", "$", "%", "&", "'", "(", ")", "*", "+",
       ",", "-", ".", "/", "0", "1", "2", "3", "4", "5", "6", "7",
       "8", "9", ":", ";", "<", "=", ">", "?", "@", "A", "B", "C",
       "D", "E", "F", "G", "H", "I", "J", "K", "L", "M", "N", "O",
       "P", "Q", "R", "S", "T", "U", "V", "W", "X", "Y", "Z", "[",
       "\\", "]", "^", "_", "grave", "a", "b", "c", "d", "e", "f", "g",
       "h", "i", "j", "k", "l", "m", "n", "o", "p", "q", "r", "s",
       "t", "u", "v", "w", "x", "y", "z", "{", "|", "}", "~"
    >>

\* ord() and chr() on the characters the program produces.
OrdTable ==
    [c \in Range(Printable) \cup {"\n"} |->
        IF c = "\n" THEN 10
        ELSE 31 + (CHOOSE k \in 1..Len(Printable) : Printable[k] = c)]

Ord(c) == OrdTable[c]

Chr(n) == IF n = 10 THEN "\n" ELSE Printable[n - 31]

\* str(n) of a natural number, as characters.
RECURSIVE ToStr(_)
ToStr(n) ==
    IF n < 10 THEN <<Chr(48 + n)>> ELSE ToStr(n \div 10) \o <<Chr(48 + (n % 10))>>

\* str.encode() and bytes.decode() on ASCII text.
StrEncode(text) == [k \in 1..Len(text) |-> Ord(text[k])]

BytesDecode(bytes) == [k \in 1..Len(bytes) |-> Chr(bytes[k])]

\* --------------------------------------------------------- JSON values

\* A JSON value: an object of (key, value) pairs in insertion order, an
\* array, a number or a string.
JObj(pairs) == [t |-> "obj", v |-> pairs]
JArr(items) == [t |-> "arr", v |-> items]
JNum(n) == [t |-> "num", v |-> n]
JStr(chars) == [t |-> "str", v |-> chars]

Keys(obj) == [k \in 1..Len(obj.v) |-> obj.v[k][1]]

\* One row as an object from column name to value.
RowObj(row) == JObj([c \in 1..Len(CsvColumns) |-> <<CsvColumns[c], JNum(row[c])>>])

\* json.loads(frame.to_json(orient="records")).
ToJsonRecords(f) == JArr([k \in 1..FrameLen(f) |-> RowObj(f.data[k])])

\* The keys of orient="split", as characters.
ColumnsKey == <<"c", "o", "l", "u", "m", "n", "s">>
IndexKey == <<"i", "n", "d", "e", "x">>
DataKey == <<"d", "a", "t", "a">>

\* json.loads(frame.to_json(orient="split")).
ToJsonSplit(f) ==
    JObj(<< <<ColumnsKey, JArr([c \in 1..Len(CsvColumns) |-> JStr(CsvColumns[c])])>>,
            <<IndexKey, JArr([k \in 1..FrameLen(f) |-> JNum(f.index[k])])>>,
            <<DataKey, JArr([k \in 1..FrameLen(f) |->
                        JArr([c \in 1..Len(CsvColumns) |-> JNum(f.data[k][c])])])>> >>)

\* json.loads(frame.to_json(orient="index")): one entry per row, keyed by
\* the string of the row's index label.
ToJsonIndexMutPosition(f) ==
    JObj([k \in 1..FrameLen(f) |-> <<ToStr(k - 1), RowObj(f.data[k])>>])

ToJsonIndex(f) ==
    JObj([k \in 1..FrameLen(f) |-> <<ToStr(f.index[k]), RowObj(f.data[k])>>])

\* to_json refuses orient="index" on a frame whose labels are not unique.
ToJsonRaises(f, orient) ==
    orient = "index" /\ Cardinality(Range(f.index)) # FrameLen(f)

ToJson(f, orient) ==
    CASE orient = "records" -> ToJsonRecords(f)
      [] orient = "split" -> ToJsonSplit(f)
      [] orient = "index" -> ToJsonIndex(f)

\* orient_map
OrientMap(o) ==
    CASE o = "Records" -> "records" [] o = "Split" -> "split" [] o = "Index" -> "index"

\* dict.update: a key already present keeps its place and takes the new
\* value, a new key is appended.
RECURSIVE DictUpdate(_, _)
DictUpdate(pairs, more) ==
    IF more = <<>> THEN pairs
    ELSE LET kv == Head(more)
             at == {k \in 1..Len(pairs) : pairs[k][1] = kv[1]}
         IN  DictUpdate(
                 IF at = {} THEN Append(pairs, kv)
                 ELSE [k \in 1..Len(pairs) |-> IF k \in at THEN kv ELSE pairs[k]],
                 Tail(more))

\* ------------------------------------------------- json.dumps(indent=2)

Spaces(n) == [k \in 1..n |-> " "]

Quoted(chars) == <<"\"">> \o chars \o <<"\"">>

RECURSIVE Dumps(_, _), DumpItems(_, _, _)
Dumps(val, level) ==
    CASE val.t = "num" -> ToStr(val.v)
      [] val.t = "str" -> Quoted(val.v)
      [] val.t = "arr" ->
            IF val.v = <<>> THEN <<"[", "]">>
            ELSE <<"[", "\n">> \o DumpItems(val.v, FALSE, level + 1)
                 \o <<"\n">> \o Spaces(2 * level) \o <<"]">>
      [] val.t = "obj" ->
            IF val.v = <<>> THEN <<"{", "}">>
            ELSE <<"{", "\n">> \o DumpItems(val.v, TRUE, level + 1)
                 \o <<"\n">> \o Spaces(2 * level) \o <<"}">>

DumpItems(items, keyed, level) ==
    LET one == Spaces(2 * level) \o
               (IF keyed
                THEN Quoted(Head(items)[1]) \o <<":", " ">>
                     \o Dumps(Head(items)[2], level)
                ELSE Dumps(Head(items), level))
    IN  IF Len(items) = 1 THEN one
        ELSE one \o <<",", "\n">> \o DumpItems(Tail(items), keyed, level)

\* json.dumps(json_data, indent=2)
JsonDumps(val) == Dumps(val, 0)

\* ------------------------------------------------------------- base64

B64Alphabet ==
    <<
       "A", "B", "C", "D", "E", "F", "G", "H", "I", "J", "K", "L", "M",
       "N", "O", "P", "Q", "R", "S", "T", "U", "V", "W", "X", "Y", "Z",
       "a", "b", "c", "d", "e", "f", "g", "h", "i", "j", "k", "l", "m",
       "n", "o", "p", "q", "r", "s", "t", "u", "v", "w", "x", "y", "z",
       "0", "1", "2", "3", "4", "5", "6", "7", "8", "9", "+", "/"
    >>

\* The byte of each 6-bit value, and the 6-bit value of each such byte.
B64CharTable == [n \in 0..63 |-> Ord(B64Alphabet[n + 1])]

B64ValueTable ==
    [byte \in {B64CharTable[n] : n \in 0..63} |->
        CHOOSE n \in 0..63 : B64CharTable[n] = byte]

B64Char(n) == B64CharTable[n]

B64Value(byte) == B64ValueTable[byte]

\* base64.b64encode: three bytes to four characters, "=" padding.
RECURSIVE B64EncodeMutNoPad(_)
B64EncodeMutNoPad(bytes) ==
    IF Len(bytes) = 0 THEN <<>>
    ELSE LET b1 == bytes[1]
             b2 == IF Len(bytes) >= 2 THEN bytes[2] ELSE 0
             b3 == IF Len(bytes) >= 3 THEN bytes[3] ELSE 0
             n  == b1 * 65536 + b2 * 256 + b3
         IN  << B64Char(n \div 262144), B64Char((n \div 4096) % 64),
                B64Char((n \div 64) % 64), B64Char(n % 64) >>
             \o B64EncodeMutNoPad(SubSeq(bytes, 4, Len(bytes)))

RECURSIVE B64Encode(_)
B64Encode(bytes) ==
    IF Len(bytes) = 0 THEN <<>>
    ELSE LET b1 == bytes[1]
             b2 == IF Len(bytes) >= 2 THEN bytes[2] ELSE 0
             b3 == IF Len(bytes) >= 3 THEN bytes[3] ELSE 0
             n  == b1 * 65536 + b2 * 256 + b3
         IN  << B64Char(n \div 262144),
                B64Char((n \div 4096) % 64),
                IF Len(bytes) >= 2 THEN B64Char((n \div 64) % 64) ELSE Ord("="),
                IF Len(bytes) >= 3 THEN B64Char(n % 64) ELSE Ord("=") >>
             \o B64Encode(SubSeq(bytes, 4, Len(bytes)))

\* base64.b64decode: four characters to three bytes, less the padding.
RECURSIVE B64Decode(_)
B64Decode(bytes) ==
    IF Len(bytes) < 4 THEN <<>>
    ELSE LET pad == IF bytes[4] # Ord("=") THEN 0
                    ELSE IF bytes[3] # Ord("=") THEN 1 ELSE 2
             v3  == IF pad >= 2 THEN 0 ELSE B64Value(bytes[3])
             v4  == IF pad >= 1 THEN 0 ELSE B64Value(bytes[4])
             n   == B64Value(bytes[1]) * 262144 + B64Value(bytes[2]) * 4096
                    + v3 * 64 + v4
         IN  SubSeq(<<n \div 65536, (n \div 256) % 256, n % 256>>, 1, 3 - pad)
             \o B64Decode(SubSeq(bytes, 5, Len(bytes)))

\* ------------------------------------------------------- the widgets

Orientations == {"Records", "Split", "Index"}

\* if len(df) > 1000: the "Use full dataset" checkbox is on the page.
CheckboxShown(len) == len > SAMPLE_THRESHOLD

\* max_value of the "Sample size" slider.
SliderMax(len) == Min(SLIDER_CAP, len)

\* sample_size as lines 66-70 leave it: <<>> for None, <<k>> for k.
SampleSizeOf(len, full, value) ==
    IF CheckboxShown(len) /\ ~full THEN <<value>> ELSE <<>>

\* ------------------------------------------------------- the conversion

\* orientation == "Index" and len(df_to_convert) > 5000
Batched(o, len) == o = "Index" /\ len > BATCH_THRESHOLD

\* total_chunks
TotalChunks(len) == (len + CONVERT_CHUNK_SIZE - 1) \div CONVERT_CHUNK_SIZE

\* Progress values are fractions <<numerator, denominator>>.
One == <<1, 1>>

RatLE(a, b) == a[1] * b[2] <= b[1] * a[2]

RatEq(a, b) == a[1] * b[2] = b[1] * a[2]

\* min(progress, 1.0) with progress = (i + chunk_size) / len(df_to_convert)
ProgressAfterMutNoCap(at, len) == <<at + CONVERT_CHUNK_SIZE, len>>

ProgressAfter(at, len) ==
    LET progress == <<at + CONVERT_CHUNK_SIZE, len>>
    IN  IF RatLE(progress, One) THEN progress ELSE One

\* The status texts.
StatusStart == [text |-> "Processing large dataset in chunks...", n |-> 0, of |-> 0]
StatusChunk(n, total) == [text |-> "Processing chunk n/of...", n |-> n, of |-> total]
StatusComplete == [text |-> "Conversion complete!", n |-> 0, of |-> 0]

\* json_data = {}; for chunk in chunks: json_data.update(chunk)
CombineMutLast(parts) ==
    IF parts = <<>> THEN JObj(<<>>) ELSE parts[Len(parts)]

RECURSIVE Combine(_)
Combine(parts) ==
    IF parts = <<>> THEN JObj(<<>>)
    ELSE JObj(DictUpdate(Combine(SubSeq(parts, 1, Len(parts) - 1)).v,
                         parts[Len(parts)].v))

\* ----------------------------------------------------------- the output

\* "\n... (truncated)"
TruncationMarker ==
    <<"\n", ".", ".", ".", " ", "(", "t", "r", "u", "n", "c", "a", "t", "e", "d", ")">>

\* len(json_str) > 500000
TooLongMutAtLeast(text) == Len(text) >= PREVIEW_LIMIT

TooLong(text) == Len(text) > PREVIEW_LIMIT

\* json_str[:500000] + "\n... (truncated)"
Truncated(text) == Slice(text, 0, PREVIEW_LIMIT) \o TruncationMarker

\* name.split('.')[0]: the characters before the first dot.
RECURSIVE SplitFirst(_)
SplitFirst(name) ==
    IF name = <<>> \/ Head(name) = "." THEN <<>>
    ELSE <<Head(name)>> \o SplitFirst(Tail(name))

\* f"{uploaded_file.name.split('.')[0]}.json"
DownloadName(name) == SplitFirst(name) \o <<".", "j", "s", "o", "n">>

\* The base64 text of get_download_link.
Payload(val) == BytesDecode(B64Encode(StrEncode(JsonDumps(val))))

\* get_download_link(json_data, filename): the link's payload and file name.
GetDownloadLink(val, filename) == [b64 |-> Payload(val), download |-> filename]

\* ------------------------------------------------------------ the state

VARIABLES
    uploaded_file,     \* None, or [name, size, csv]
    pc,                \* the position of the script
    read_pos,          \* data rows the chunked reader has consumed
    df_list,           \* the chunks read so far
    df,                \* the loaded DataFrame
    orientation,       \* the "JSON Structure" radio
    use_full_dataset,  \* the "Use full dataset" checkbox
    slider,            \* the "Sample size" slider
    sample_size,       \* <<>> for None, <<k>> for k
    df_to_convert,     \* the frame handed to the conversion
    i,                 \* the batch loop's variable
    chunks,            \* the chunk_json of the batches done
    json_data,         \* the converted structure
    json_str,          \* the text serialized for display
    progress_bar,      \* the values set with progress_bar.progress, in order
    status_text,       \* the texts set with status_text.text, in order
    screen             \* what the page shows

vars == <<uploaded_file, pc, read_pos, df_list, df, orientation,
          use_full_dataset, slider, sample_size, df_to_convert, i, chunks,
          json_data, json_str, progress_bar, status_text, screen>>

loaded == <<uploaded_file, read_pos, df_list, df>>
widgets == <<orientation, use_full_dataset, slider>>
converted == <<df_to_convert, i, chunks, json_data>>
reported == <<progress_bar, status_text>>

Init ==
    /\ uploaded_file = None
    /\ pc = "upload"
    /\ read_pos = 0
    /\ df_list = <<>>
    /\ df = None
    /\ orientation = "Records"
    /\ use_full_dataset = TRUE
    /\ slider = SLIDER_DEFAULT
    /\ sample_size = <<>>
    /\ df_to_convert = None
    /\ i = 0
    /\ chunks = <<>>
    /\ json_data = None
    /\ json_str = <<>>
    /\ progress_bar = <<>>
    /\ status_text = <<>>
    /\ screen = [large_warning |-> FALSE, progress |-> FALSE,
                 truncated_warning |-> FALSE, json_view |-> <<>>,
                 code_view |-> <<>>, link |-> <<>>, error |-> <<>>,
                 hint |-> FALSE]

\* except Exception as e: st.error(f"Error: {e}"); st.write(hint).  What the
\* page already shows stays.
Failed(e) ==
    /\ pc' = "error"
    /\ screen' = [screen EXCEPT !.error = <<e>>, !.hint = TRUE]

\* st.file_uploader returns a file; the large-file warning.
Upload ==
    /\ pc = "upload"
    /\ \E f \in Files, c \in Csvs :
          /\ uploaded_file' = [name |-> f.name, size |-> f.size, csv |-> c]
          /\ screen' = [screen EXCEPT !.large_warning = f.size > WARN_SIZE]
    /\ pc' = "load"
    /\ UNCHANGED <<read_pos, df_list, df, widgets, sample_size, converted,
                   json_str, reported>>

\* df = pd.read_csv(uploaded_file)
LoadWhole ==
    /\ pc = "load"
    /\ ~(uploaded_file.size > CHUNKED_READ_SIZE)
    /\ LET csv == uploaded_file.csv
       IN  IF ParseFails(csv, 0, Len(csv.rows))
           THEN Failed("ParserError") /\ UNCHANGED df
           ELSE df' = ReadCsv(csv) /\ pc' = "options" /\ UNCHANGED screen
    /\ UNCHANGED <<uploaded_file, read_pos, df_list, widgets, sample_size,
                   converted, json_str, reported>>

\* chunks = pd.read_csv(uploaded_file, chunksize=chunk_size); df_list = []
OpenChunks ==
    /\ pc = "load"
    /\ uploaded_file.size > CHUNKED_READ_SIZE
    /\ df_list' = <<>>
    /\ read_pos' = 0
    /\ pc' = "read_chunks"
    /\ UNCHANGED <<uploaded_file, df, widgets, sample_size, converted,
                   json_str, reported, screen>>

\* One turn of "for chunk in chunks: df_list.append(chunk)": the reader
\* parses the next chunk_size rows; a CSV without data rows gives one empty
\* chunk.
ReadChunk ==
    /\ pc = "read_chunks"
    /\ LET csv  == uploaded_file.csv
           last == Min(read_pos + READ_CHUNK_SIZE, Len(csv.rows))
       IN  /\ read_pos < Len(csv.rows) \/ df_list = <<>>
           /\ IF ParseFails(csv, read_pos, last)
              THEN Failed("ParserError") /\ UNCHANGED <<df_list, read_pos>>
              ELSE /\ df_list' = Append(df_list, ParsedRows(csv, read_pos, last))
                   /\ read_pos' = last
                   /\ UNCHANGED <<pc, screen>>
    /\ UNCHANGED <<uploaded_file, df, widgets, sample_size, converted,
                   json_str, reported>>

\* The reader is exhausted: df = pd.concat(df_list)
ConcatChunks ==
    /\ pc = "read_chunks"
    /\ read_pos = Len(uploaded_file.csv.rows)
    /\ df_list # <<>>
    /\ df' = Concat(df_list)
    /\ pc' = "options"
    /\ UNCHANGED <<uploaded_file, read_pos, df_list, widgets, sample_size,
                   converted, json_str, reported, screen>>

\* The user picks another JSON structure.
SelectOrientation ==
    /\ pc = "options"
    /\ \E o \in Orientations \ {orientation} : orientation' = o
    /\ UNCHANGED <<loaded, pc, use_full_dataset, slider, sample_size,
                   converted, json_str, reported, screen>>

\* The user flips "Use full dataset"; the slider it uncovers is new, at its
\* default.
ToggleFullDataset ==
    /\ pc = "options"
    /\ CheckboxShown(FrameLen(df))
    /\ use_full_dataset' = ~use_full_dataset
    /\ slider' = SLIDER_DEFAULT
    /\ UNCHANGED <<loaded, pc, orientation, sample_size, converted, json_str,
                   reported, screen>>

\* The user moves the "Sample size" slider.
MoveSlider ==
    /\ pc = "options"
    /\ CheckboxShown(FrameLen(df))
    /\ ~use_full_dataset
    /\ \E k \in (SLIDER_MIN..SliderMax(FrameLen(df))) \ {slider} : slider' = k
    /\ UNCHANGED <<loaded, pc, orientation, use_full_dataset, sample_size,
                   converted, json_str, reported, screen>>

\* The user clicks "Convert to JSON": the run in which st.button is true,
\* with sample_size as lines 66-70 set it.
ClickConvert ==
    /\ pc = "options"
    /\ sample_size' = SampleSizeOf(FrameLen(df), use_full_dataset, slider)
    /\ pc' = "convert"
    /\ UNCHANGED <<loaded, widgets, converted, json_str, reported, screen>>

\* Lines 77-94: the sample, the progress bar and the status text, and the
\* choice of the batched path.
StartConvert ==
    /\ pc = "convert"
    /\ IF sample_size # <<>> /\ sample_size[1] > FrameLen(df)
       THEN /\ Failed("ValueError")
            /\ UNCHANGED <<df_to_convert, i, chunks, reported>>
       ELSE /\ IF sample_size = <<>>
               THEN df_to_convert' = df
               ELSE \E p \in SampleDraws(sample_size[1], FrameLen(df)) :
                        df_to_convert' = Sampled(df, p)
            /\ progress_bar' = <<>>
            /\ screen' = [screen EXCEPT !.progress = TRUE]
            /\ i' = 0
            /\ chunks' = <<>>
            /\ IF Batched(orientation, FrameLen(df_to_convert'))
               THEN status_text' = <<StatusStart>> /\ pc' = "batch"
               ELSE status_text' = <<>> /\ pc' = "direct"
    /\ UNCHANGED <<loaded, widgets, sample_size, json_data, json_str>>

\* One turn of the batch loop, lines 96-103.
Batch ==
    /\ pc = "batch"
    /\ i < FrameLen(df_to_convert)
    /\ LET chunk == Iloc(df_to_convert, i, i + CONVERT_CHUNK_SIZE)
       IN  IF ToJsonRaises(chunk, OrientMap(orientation))
           THEN Failed("ValueError") /\ UNCHANGED <<i, chunks, reported>>
           ELSE /\ chunks' = Append(chunks, ToJson(chunk, OrientMap(orientation)))
                /\ progress_bar' =
                       Append(progress_bar, ProgressAfter(i, FrameLen(df_to_convert)))
                /\ status_text' =
                       Append(status_text,
                              StatusChunk(i \div CONVERT_CHUNK_SIZE + 1,
                                          TotalChunks(FrameLen(df_to_convert))))
                /\ i' = i + CONVERT_CHUNK_SIZE
                /\ UNCHANGED <<pc, screen>>
    /\ UNCHANGED <<loaded, widgets, sample_size, df_to_convert, json_data,
                   json_str>>

\* The loop is over: lines 105-108 combine the chunks, lines 114-117 end
\* the progress display.
CombineChunks ==
    /\ pc = "batch"
    /\ ~(i < FrameLen(df_to_convert))
    /\ json_data' = Combine(chunks)
    /\ status_text' = Append(status_text, StatusComplete)
    /\ screen' = [screen EXCEPT !.progress = FALSE]
    /\ pc' = "display"
    /\ UNCHANGED <<loaded, widgets, sample_size, df_to_convert, i, chunks,
                   json_str, progress_bar>>

\* The standard conversion, lines 110-117.
Direct ==
    /\ pc = "direct"
    /\ IF ToJsonRaises(df_to_convert, OrientMap(orientation))
       THEN Failed("ValueError") /\ UNCHANGED <<json_data, reported>>
       ELSE /\ json_data' = ToJson(df_to_convert, OrientMap(orientation))
            /\ progress_bar' = Append(progress_bar, One)
            /\ status_text' = Append(status_text, StatusComplete)
            /\ screen' = [screen EXCEPT !.progress = FALSE]
            /\ pc' = "display"
    /\ UNCHANGED <<loaded, widgets, sample_size, df_to_convert, i, chunks,
                   json_str>>

\* Lines 120-130: the text is serialized and the viewer is shown.
Display ==
    /\ pc = "display"
    /\ json_str' = JsonDumps(json_data)
    /\ IF TooLong(json_str')
       THEN screen' = [screen EXCEPT !.truncated_warning = TRUE,
                                     !.code_view = <<Truncated(json_str')>>]
       ELSE screen' = [screen EXCEPT !.json_view = <<json_data>>]
    /\ pc' = "link"
    /\ UNCHANGED <<loaded, widgets, sample_size, converted, reported>>

\* Line 133: the download link.
Link ==
    /\ pc = "link"
    /\ screen' = [screen EXCEPT !.link =
            <<GetDownloadLink(json_data, DownloadName(uploaded_file.name))>>]
    /\ pc' = "done"
    /\ UNCHANGED <<loaded, widgets, sample_size, converted, json_str, reported>>

\* The statement the script is at raises (a library or a memory error).
Raise ==
    /\ pc \in {"convert", "batch", "direct", "display", "link"}
    /\ Failed("Exception")
    /\ UNCHANGED <<loaded, widgets, sample_size, converted, json_str, reported>>

Next ==
    \/ Upload
    \/ LoadWhole
    \/ OpenChunks
    \/ ReadChunk
    \/ ConcatChunks
    \/ SelectOrientation
    \/ ToggleFullDataset
    \/ MoveSlider
    \/ ClickConvert
    \/ StartConvert
    \/ Batch
    \/ CombineChunks
    \/ Direct
    \/ Display
    \/ Link
    \/ Raise

Spec == Init /\ [][Next]_vars


\* ------------------------------------------------------------ the claims

\* The positions of the script at which df_to_convert is set, and those at
\* which json_data is.
Converting == {"batch", "direct", "display", "link", "done"}
HasJson == {"display", "link", "done"}

\* Whether the run took the batched path.
TookBatches == orientation = "Index" /\ FrameLen(df_to_convert) > BATCH_THRESHOLD

\* The value an object holds under a key.
Lookup(obj, key) == obj.v[CHOOSE k \in 1..Len(obj.v) : obj.v[k][1] = key][2]

NoKeyTwice(obj) == Cardinality(Range(Keys(obj))) = Len(obj.v)

C2_PreviewAndPayload ==
    /\ pc \in {"link", "done"} =>
          /\ json_str = JsonDumps(json_data)
          /\ IF Len(json_str) > PREVIEW_LIMIT
             THEN /\ screen.code_view =
                        <<SubSeq(json_str, 1, PREVIEW_LIMIT) \o TruncationMarker>>
                  /\ screen.json_view = <<>>
                  /\ screen.truncated_warning
             ELSE /\ screen.json_view = <<json_data>>
                  /\ screen.code_view = <<>>
                  /\ ~screen.truncated_warning
    /\ pc = "done" =>
          /\ Len(screen.link) = 1
          /\ screen.link[1].b64 = BytesDecode(B64Encode(StrEncode(json_str)))
          /\ Len(screen.link[1].b64) = 4 * ((Len(json_str) + 2) \div 3)

\* A truncated preview with its link.
C2_Witness ==
    /\ pc = "done"
    /\ Len(json_str) > PREVIEW_LIMIT
    /\ screen.code_view # <<>>

\* A text of exactly PREVIEW_LIMIT characters, shown whole.
C2_WitnessAtLimit ==
    /\ pc = "done"
    /\ Len(json_str) = PREVIEW_LIMIT
    /\ screen.json_view # <<>>

\* C3: the bytes base64-decoded from the link's payload are the bytes of
\* json.dumps(json_data, indent=2), which is the text serialized for
\* display.
C3_RoundTrip ==
    pc = "done" =>
        /\ B64Decode(StrEncode(screen.link[1].b64)) = StrEncode(JsonDumps(json_data))
        /\ BytesDecode(B64Decode(StrEncode(screen.link[1].b64))) = json_str

\* A link whose text needs padding (its length is no multiple of 3).
C3_Witness ==
    /\ pc = "done"
    /\ Len(json_str) % 3 = 1
    /\ screen.json_view # <<>>

\* C4, as claimed: a run that ended in the exception handler shows the
\* error and the hint, and no viewer and no download link.
C4_ErrorShowsNoOutput ==
    pc = "error" =>
        /\ screen.error # <<>>
        /\ screen.hint
        /\ screen.json_view = <<>>
        /\ screen.code_view = <<>>
        /\ screen.link = <<>>

C6_Sampling ==
    pc \in Converting =>
        /\ sample_size # <<>> <=>
              (FrameLen(df) > SAMPLE_THRESHOLD /\ ~use_full_dataset)
        /\ sample_size # <<>> =>
              /\ SLIDER_MIN <= sample_size[1]
              /\ sample_size[1] <= SLIDER_CAP
              /\ sample_size[1] <= FrameLen(df)
              /\ FrameLen(df_to_convert) = sample_size[1]
              /\ Len(df_to_convert.data) = sample_size[1]
              /\ \A k \in 1..sample_size[1] :
                    \E q \in 1..FrameLen(df) :
                        /\ df_to_convert.index[k] = df.index[q]
                        /\ df_to_convert.data[k] = df.data[q]
              /\ Cardinality(Range(df.index)) = FrameLen(df)
              /\ \A x, y \in 1..sample_size[1] :
                    x # y => df_to_convert.index[x] # df_to_convert.index[y]
        /\ sample_size = <<>> => df_to_convert = df

\* A converted sample of the largest size the slider allows, out of order.
C6_Witness ==
    /\ pc = "done"
    /\ sample_size = <<SLIDER_CAP>>
    /\ FrameLen(df) > SLIDER_CAP
    /\ df_to_convert.index[1] > df_to_convert.index[2]

\* The base name of a file name: the name less its final extension.
RECURSIVE BaseName(_)
BaseName(name) ==
    IF "." \notin Range(name) THEN name
    ELSE IF name[Len(name)] = "." THEN SubSeq(name, 1, Len(name) - 1)
         ELSE BaseName(SubSeq(name, 1, Len(name) - 1))

\* C7, as claimed: the link's file name is the upload's base name followed
\* by ".json".
C7_DownloadNameIsBaseName ==
    pc = "done" =>
        screen.link[1].download =
            BaseName(uploaded_file.name) \o <<".", "j", "s", "o", "n">>

CeilDiv(n, d) == CHOOSE t \in 0..n : t * d >= n /\ (t - 1) * d < n

\* min((k * CONVERT_CHUNK_SIZE) / n, 1.0)
ExpectedProgress(k, n) ==
    IF k * CONVERT_CHUNK_SIZE <= n THEN <<k * CONVERT_CHUNK_SIZE, n>> ELSE One

\* C9: on the batched path one progress value is reported per batch done,
\* the k-th being min(k * CONVERT_CHUNK_SIZE / N, 1.0); the values never
\* decrease nor exceed 1.0 and the last is 1.0; the status counts the
\* chunks 1 .. ceil(N / CONVERT_CHUNK_SIZE) in order.  On the direct path
\* the only value reported is 1.0, after the conversion.
C9_Progress ==
    LET n     == FrameLen(df_to_convert)
        total == CeilDiv(n, CONVERT_CHUNK_SIZE)
    IN  /\ (pc \in Converting /\ TookBatches) =>
              /\ Len(progress_bar) = Len(chunks)
              /\ Len(chunks) * CONVERT_CHUNK_SIZE = i
              /\ \A k \in 1..Len(progress_bar) :
                    /\ RatEq(progress_bar[k], ExpectedProgress(k, n))
                    /\ RatLE(progress_bar[k], One)
                    /\ k > 1 => RatLE(progress_bar[k - 1], progress_bar[k])
              /\ status_text[1] = StatusStart
              /\ \A k \in 1..Len(chunks) : status_text[k + 1] = StatusChunk(k, total)
              /\ pc = "batch" => Len(status_text) = Len(chunks) + 1
              /\ pc \in HasJson =>
                    /\ Len(chunks) = total
                    /\ RatEq(progress_bar[Len(progress_bar)], One)
                    /\ Len(status_text) = total + 2
                    /\ status_text[total + 2] = StatusComplete
        /\ (pc \in Converting /\ ~TookBatches) =>
              /\ pc = "direct" => progress_bar = <<>>
              /\ pc \in HasJson => progress_bar = <<One>>

\* A batched conversion whose last batch is a partial one, at its end.
C9_Witness ==
    /\ pc = "display"
    /\ TookBatches
    /\ Len(progress_bar) >= 3
    /\ FrameLen(df_to_convert) % CONVERT_CHUNK_SIZE # 0

====
